---------------------------- MODULE Spec2Model ----------------------------
(***************************************************************************)
(* Model of the pipeline stage execution core of flight-price-modeling:    *)
(*   scripts/data_acquisition.py   download_zip, extract_all, entry point  *)
(*   scripts/ingest_db.py          create_database, ingest_db, entry point *)
(*   components/data_ingestion.py  load_data_from_db, entry point          *)
(*   core/logging_setup.py         get_logger                              *)
(*   core/exception.py             error_message_details, CustomException  *)
(*   config/configuration.py, utils/data_io.py                             *)
(*                                                                         *)
(* One behaviour is one operating-system process.  `program` names what    *)
(* the process runs: one of the three entry points, or a client that calls *)
(* the public operations of a module in any order.  Every operation is one *)
(* action; what the operation's external collaborators do (the remote      *)
(* fetch, the ZIP decoder, the database server) is drawn with \E from the  *)
(* outcomes they can produce.  Directory creation with parents=True,       *)
(* exist_ok=True is taken to succeed (every ancestor of a configured path  *)
(* is a directory or absent).                                              *)
(***************************************************************************)
EXTENDS Integers, Sequences, FiniteSets, TLC

VARIABLES
    program,      \* what this process runs
    pc,           \* position of the entry point ("idle" for a client)
    runs,         \* number of invocations of the entry point so far
    lastOp,       \* the operation that completed last, with its inputs
    err,          \* the exception that left lastOp, NoError when it returned
    \* ---- filesystem seen by scripts/data_acquisition.py
    archive,      \* state of config.download_file_path
    archiveDir,   \* download_file_path.parent exists
    extractDir,   \* config.extract_dir exists
    extracted,    \* files below extract_dir
    fetches,      \* gdown.download calls made by the last download_zip
    unpacks,      \* ZipFile(...) opens attempted by the last extract_all
    \* ---- Python's logging module, the log files and stderr
    logging,      \* loggerDict, logger objects, root handlers, files, console
    dirs,         \* directories that exist (paths as component sequences)
    returned,     \* per logger name, the objects get_logger has returned
    sent,         \* the records a client has logged: name, levelname, message
    logger,       \* module variable `logger` of data_ingestion.py (0: unset)
    \* ---- configuration document, database server, data files
    configDoc,    \* state of the YAML document the program loads
    driverOk,     \* create_engine accepts the URL built from DB_* variables
    dbUp,         \* the database server accepts connections
    database,     \* the database DB_NAME exists on the server
    table,        \* the destination table: exists, rows
    dataDir,      \* os.listdir(data_dir), in the order it is returned
    tableWrites,  \* to_sql calls completed by the last ingest_db
    dbCalls,      \* connections attempted by this process
    snapshot      \* the file raw_data_path/RAW_FILE: exists, rows

procVars == <<program, pc, runs, lastOp, err>>
acqVars  == <<archive, archiveDir, extractDir, extracted, fetches, unpacks>>
logVars  == <<logging, dirs, returned, sent, logger>>
dbVars   == <<configDoc, driverOk, dbUp, database, table, dataDir, tableWrites, dbCalls, snapshot>>
vars     == <<procVars, acqVars, logVars, dbVars>>

----------------------------------------------------------------------------
(* Bounds *)

\* Fresh invocations of an entry point in one behaviour.
MaxRuns == 2
\* Records a logging client logs in one behaviour.
MaxRecords == 2
\* Files in data_dir.
MaxFiles == 3
\* Paths in the list a client passes to create_directories.
MaxDirs == 2

----------------------------------------------------------------------------
(* Exceptions.  A message is a sequence of string tokens, so that building *)
(* one message out of another is concatenation and not identity.           *)

NoError == [kind |-> "none", msg |-> <<>>, line |-> 0, args |-> <<>>, error_message |-> <<>>]

\* A built-in or library exception raised at `line` of the running file.
Raise(kind, text, line) ==
    [kind |-> kind, msg |-> <<text>>, line |-> line, args |-> <<>>, error_message |-> <<>>]

\* What pathlib's stat() raises for a path that does not exist.
StatENOENT(line) == Raise("FileNotFoundError", "[Errno 2] No such file or directory", line)

----------------------------------------------------------------------------
(* Paths are sequences of components.                                      *)

Parent(p)   == SubSeq(p, 1, Len(p) - 1)
\* Path.mkdir(parents=True, exist_ok=True): the directory and its ancestors.
Prefixes(d) == {SubSeq(d, 1, k) : k \in 1..Len(d)}
MkdirParents(ds, d) == ds \cup Prefixes(d)

----------------------------------------------------------------------------
(* Python's logging module as core/logging_setup.py and core/exception.py  *)
(* use it.  `logging` is a record:                                         *)
(*   loggerDict  name -> index of the logger object in heap, 0 when the    *)
(*               name was never requested (Logger.manager.loggerDict)      *)
(*   heap        the logger objects: name, level, propagate, handlers      *)
(*   root        the root logger's handlers                                *)
(*   files       log file path -> exists, content (a sequence of lines)    *)
(*   opens       log file path -> number of times the file was opened      *)
(*   console     the lines written to stderr                               *)
(* A handler is [kind, target, mode, pos, level, fmt].  A file handler     *)
(* opened with mode "w" writes at its own offset pos, one opened with "a"  *)
(* at the end of the file; offsets count lines.                            *)

LoggerNames == {"Data Ingestion", "Pipeline"}
DATA_INGESTION_LOGGER == "Data Ingestion"
DataIngestionLogPath  == <<"logs", "data_ingestion.log">>
LogPaths == {DataIngestionLogPath, <<"logs", "runs", "pipeline.log">>}
Modes    == {"w", "a"}

LevelNo(levelname) ==
    CASE levelname = "NOTSET"  -> 0
      [] levelname = "DEBUG"   -> 10
      [] levelname = "INFO"    -> 20
      [] levelname = "WARNING" -> 30
      [] levelname = "ERROR"   -> 40

FreshLogging ==
    [loggerDict |-> [n \in LoggerNames |-> 0],
     heap       |-> <<>>,
     root       |-> <<>>,
     files      |-> [p \in LogPaths |-> [exists |-> FALSE, content |-> <<>>]],
     opens      |-> [p \in LogPaths |-> 0],
     console    |-> <<>>]

\* The two formats: logging_setup.py lines 70-73, and logging.BASIC_FORMAT.
Line(fmt, name, levelname, message) ==
    [fmt |-> fmt, name |-> name, levelname |-> levelname, message |-> message]
\* What a read finds where a file was never written (a write past its end).
Hole == Line("hole", "", "", <<>>)

\* logging.getLogger(name), line 57: the object cached under the name.
LookupLoggerFresh(L, name) == 0
LookupLogger(L, name) == L.loggerDict[name]

\* `if not logger.handlers`, line 60.
NeedsHandlersAlways(lg) == TRUE
NeedsHandlers(lg) == lg.handlers = <<>>

\* open(path, mode) by logging.FileHandler, line 62.
OpenFile(L, path, mode) ==
    [L EXCEPT !.files[path] = [exists  |-> TRUE,
                               content |-> IF mode = "w" THEN <<>> ELSE @.content],
              !.opens[path] = @ + 1]

\* get_logger(name, log_file_path, mode) after line 55: the logging state
\* it leaves and the index of the logger object it returns.
GetLogger(L, name, path, mode) ==
    LET found == LookupLogger(L, name)
        id    == IF found = 0 THEN Len(L.heap) + 1 ELSE found
        L1    == IF found = 0
                 THEN [L EXCEPT !.heap = Append(@, [name |-> name, level |-> LevelNo("NOTSET"),
                                                    propagate |-> TRUE, handlers |-> <<>>]),
                                !.loggerDict[name] = id]
                 ELSE L
        L2    == [L1 EXCEPT !.heap[id].level = LevelNo("INFO")]
        fh    == [kind |-> "file", target |-> path, mode |-> mode, pos |-> 0,
                  level |-> LevelNo("INFO"), fmt |-> "timestamped"]
        ch    == [kind |-> "stream", target |-> <<"stderr">>, mode |-> "", pos |-> 0,
                  level |-> LevelNo("INFO"), fmt |-> "timestamped"]
        L3    == IF NeedsHandlers(L2.heap[id])
                 THEN [OpenFile(L2, path, mode) EXCEPT !.heap[id].handlers = @ \o <<fh, ch>>]
                 ELSE L2
    IN  [L |-> [L3 EXCEPT !.heap[id].propagate = FALSE], ret |-> id]

\* A write of one line at offset pos of a file not opened for appending.
WriteAt(content, pos, line) ==
    LET padded == IF Len(content) < pos
                  THEN content \o [i \in 1..(pos - Len(content)) |-> Hole]
                  ELSE content
    IN  SubSeq(padded, 1, pos) \o <<line>> \o SubSeq(padded, pos + 2, Len(padded))

\* Handler.handle(record) of handler i of logger id.
Emit(L, id, i, levelname, message) ==
    LET lg   == L.heap[id]
        h    == lg.handlers[i]
        line == Line(h.fmt, lg.name, levelname, message)
    IN  IF LevelNo(levelname) < h.level THEN L
        ELSE IF h.kind = "stream" THEN [L EXCEPT !.console = Append(@, line)]
        ELSE [L EXCEPT !.files[h.target].content =
                            IF h.mode = "a" THEN Append(@, line) ELSE WriteAt(@, h.pos, line),
                       !.heap[id].handlers[i].pos = @ + 1]

RECURSIVE EmitFrom(_, _, _, _, _)
EmitFrom(L, id, i, levelname, message) ==
    IF i > Len(L.heap[id].handlers) THEN L
    ELSE EmitFrom(Emit(L, id, i, levelname, message), id, i + 1, levelname, message)

\* The root logger handles a record: its handlers all write to stderr.
RECURSIVE EmitRoot(_, _, _, _, _)
EmitRoot(L, i, name, levelname, message) ==
    IF i > Len(L.root) THEN L
    ELSE EmitRoot([L EXCEPT !.console = Append(@, Line(L.root[i].fmt, name, levelname, message))],
                  i + 1, name, levelname, message)

\* Logger.log of logger id: dropped below the logger's level, else handled
\* by its handlers and, when it propagates, by the root logger's.
Log(L, id, levelname, message) ==
    LET lg == L.heap[id]
        L1 == EmitFrom(L, id, 1, levelname, message)
    IN  IF LevelNo(levelname) < lg.level THEN L
        ELSE IF lg.propagate THEN EmitRoot(L1, 1, lg.name, levelname, message)
        ELSE L1

\* logging.error(msg), exception.py line 51: the module-level function calls
\* basicConfig() when the root logger has no handler, which gives it one
\* stderr handler in BASIC_FORMAT, and then logs through the root logger.
RootErrorSilent(L, message) == L
RootError(L, message) ==
    LET L1 == IF L.root = <<>>
              THEN [L EXCEPT !.root = <<[kind |-> "stream", target |-> <<"stderr">>, mode |-> "",
                                         pos |-> 0, level |-> LevelNo("NOTSET"), fmt |-> "basic"]>>]
              ELSE L
    IN  EmitRoot(L1, 1, "root", "ERROR", message)

----------------------------------------------------------------------------
(* core/exception.py *)

\* str(e) of an exception of the base classes: of its single argument.
RECURSIVE StrOfArgs(_)
StrOfArgs(e) == IF e.args = <<>> THEN e.msg ELSE StrOfArgs(e.args[1])
\* str(e): CustomException.__str__, lines 88-89, returns error_message.
Str(e) == IF e.kind = "CustomException" THEN e.error_message ELSE e.msg

\* error_message_details, lines 45-49: the message built from the file and
\* line of the traceback and the stringified error.
ErrorMessage(error, file, line) ==
    <<"Error occurred in python script - ", file, ", line number - ", ToString(line),
      ", error message - ">> \o Str(error)

PythonFile == "data_ingestion.py"

\* CustomException(e, sys) raised at raisedAt while handling e, which the
\* try block raised at line tbLine: the exception object (lines 84-86).
CustomExceptionRaw(e, tbLine, raisedAt) == e
CustomException(e, tbLine, raisedAt) ==
    [kind |-> "CustomException", msg |-> <<>>, line |-> raisedAt, args |-> <<e>>,
     error_message |-> ErrorMessage(e, PythonFile, tbLine)]

\* ... and what its construction writes (error_message_details line 51).
LogEnriched(L, e, tbLine) == RootError(L, ErrorMessage(e, PythonFile, tbLine))

----------------------------------------------------------------------------
(* scripts/data_acquisition.py *)

ArchiveStates == {"absent", "empty", "valid", "corrupt"}

\* Path.exists() and Path.stat().st_size of the archive path.
Exists(a) == a # "absent"
Size(a)   == IF a \in {"valid", "corrupt"} THEN 1024 ELSE 0

\* Entries of the remote archive, in the order extractall writes them.
ArchiveEntries == <<"flight_price.csv", "docs/readme.txt">>
EntrySet(k)    == {ArchiveEntries[i] : i \in 1..k}
\* A file that an earlier run may have left below extract_dir.
OldEntries     == {"old.csv"}

\* download_zip line 96: the fast path.
SkipDownloadIfExists(a) == Exists(a)
SkipDownload(a) == Exists(a) /\ Size(a) > 0

\* The validation of lines 104 and 128,
\*     if not p.exists() and p.stat().st_size == 0: raise e
\* evaluated as Python evaluates it: the right operand only when the left one
\* is true, and stat() of a missing path raises.
MissingOrEmpty(a, line, e) ==
    IF ~Exists(a)
    THEN IF ~Exists(a) THEN StatENOENT(line)
         ELSE IF Size(a) = 0 THEN e ELSE NoError
    ELSE NoError

DownloadFailed == Raise("RuntimeError", "Download failed or produced an empty file", 105)
ZipMissing     == Raise("FileNotFoundError", "Zip file is missing or empty. Cannot extract.", 129)

\* gdown.download(url, output): it raises, or it returns having written
\* nothing, a zero-byte file, a good archive or a damaged one.
FetchOutcomes == {"raises", "nothing", "empty", "valid", "corrupt"}
AfterFetch(a, o) == IF o \in {"raises", "nothing"} THEN a ELSE o

\* download_zip, lines 89-108.  `except Exception as e: raise` re-raises
\* the exception as it is.
DownloadZip ==
    /\ archiveDir' = TRUE
    /\ \/ /\ SkipDownload(archive)
          /\ archive' = archive
          /\ fetches' = 0
          /\ err' = NoError
          /\ lastOp' = [op |-> "download_zip", entry |-> archive, outcome |-> "skipped"]
       \/ /\ ~SkipDownload(archive)
          /\ \E o \in FetchOutcomes :
                /\ archive' = AfterFetch(archive, o)
                /\ fetches' = 1
                /\ err' = IF o = "raises"
                          THEN Raise("FileURLRetrievalError", "Failed to retrieve file url", 102)
                          ELSE MissingOrEmpty(AfterFetch(archive, o), 104, DownloadFailed)
                /\ lastOp' = [op |-> "download_zip", entry |-> archive, outcome |-> o]
    /\ UNCHANGED <<extractDir, extracted, unpacks>>

\* extract_dir.mkdir(parents=True, exist_ok=True), line 126.
MkdirSkipped(d) == d
Mkdir(d) == TRUE

\* A handler that caught the exception and let extract_all return.
ExtractAllHandlerSwallows(e) == NoError

\* The handler of extract_all, lines 134-135: `except Exception as e: raise`
\* re-raises the exception it caught, as it is.
ExtractAllHandler(e) == e

\* extract_all, lines 122-135.  ZipFile() of an empty file raises BadZipFile
\* before anything is written; a damaged archive raises either there or in
\* extractall, after the entries before the damaged one were written.
ExtractAll ==
    /\ extractDir' = Mkdir(extractDir)
    /\ LET check == MissingOrEmpty(archive, 128, ZipMissing) IN
       \/ /\ check # NoError
          /\ err' = ExtractAllHandler(check)
          /\ unpacks' = 0
          /\ extracted' = extracted
          /\ lastOp' = [op |-> "extract_all", entry |-> archive, outcome |-> "invalid",
                        hadDir |-> extractDir, hadFiles |-> extracted]
       \/ /\ check = NoError
          /\ archive = "valid"
          /\ err' = NoError
          /\ unpacks' = 1
          /\ extracted' = extracted \cup EntrySet(Len(ArchiveEntries))
          /\ lastOp' = [op |-> "extract_all", entry |-> archive, outcome |-> "unpacked",
                        hadDir |-> extractDir, hadFiles |-> extracted]
       \/ /\ check = NoError
          /\ archive = "empty"
          /\ err' = ExtractAllHandler(Raise("BadZipFile", "File is not a zip file", 131))
          /\ unpacks' = 1
          /\ extracted' = extracted
          /\ lastOp' = [op |-> "extract_all", entry |-> archive, outcome |-> "bad_zip",
                        hadDir |-> extractDir, hadFiles |-> extracted]
       \/ /\ check = NoError
          /\ archive = "corrupt"
          /\ \E k \in 0..(Len(ArchiveEntries) - 1) :
                /\ err' = ExtractAllHandler(
                            IF k = 0
                            THEN Raise("BadZipFile", "File is not a zip file", 131)
                            ELSE Raise("BadZipFile", "Bad CRC-32 for file", 132))
                /\ extracted' = extracted \cup EntrySet(k)
          /\ unpacks' = 1
          /\ lastOp' = [op |-> "extract_all", entry |-> archive, outcome |-> "bad_zip",
                        hadDir |-> extractDir, hadFiles |-> extracted]
    /\ UNCHANGED <<archive, archiveDir, fetches>>

\* A script that went on after a stage raised.
AfterStageIgnoringError(e, next) == next

\* The statements under __main__ run one after the other, none of them in
\* a try: a stage that returns lets the next statement run (next), an
\* exception that leaves a stage ends the interpreter with a traceback and
\* exit status 1.
AfterStage(e, next) == IF e = NoError THEN next ELSE "exit_1"

\* Entry point, lines 141-145: download_zip() then extract_all(); an
\* exception that leaves either ends the process with exit status 1.
MainDownloadZip ==
    /\ program = "data_acquisition" /\ pc = "download_zip"
    /\ DownloadZip
    /\ pc' = AfterStage(err', "extract_all")
    /\ UNCHANGED <<program, runs, logVars, dbVars>>

MainExtractAll ==
    /\ program = "data_acquisition" /\ pc = "extract_all"
    /\ ExtractAll
    /\ pc' = AfterStage(err', "exit_0")
    /\ UNCHANGED <<program, runs, logVars, dbVars>>

\* The script is run again on the filesystem the last run left.
RerunAcquisition ==
    /\ program = "data_acquisition" /\ pc \in {"exit_0", "exit_1"}
    /\ runs < MaxRuns
    /\ runs' = runs + 1
    /\ pc' = "download_zip"
    /\ UNCHANGED <<program, lastOp, err, acqVars, logVars, dbVars>>

\* A client of class DataAcquisition calls its two methods in any order.
CallDownloadZip ==
    /\ program = "DataAcquisition" /\ pc = "idle"
    /\ DownloadZip
    /\ UNCHANGED <<program, pc, runs, logVars, dbVars>>

CallExtractAll ==
    /\ program = "DataAcquisition" /\ pc = "idle"
    /\ ExtractAll
    /\ UNCHANGED <<program, pc, runs, logVars, dbVars>>

NoOp == [op |-> "none"]

----------------------------------------------------------------------------
(* A client of core/logging_setup.py: it requests loggers and logs records *)
(* through the loggers get_logger returned.                                *)

\* get_logger, lines 55-83.
CallGetLogger ==
    /\ program = "logging_setup" /\ pc = "idle"
    /\ \E name \in LoggerNames, path \in LogPaths, mode \in Modes :
          LET r == GetLogger(logging, name, path, mode) IN
          /\ dirs' = MkdirParents(dirs, Parent(path))
          /\ logging' = r.L
          /\ returned' = [returned EXCEPT ![name] = @ \cup {r.ret}]
          /\ lastOp' = [op |-> "get_logger", name |-> name, path |-> path, mode |-> mode,
                        cached |-> logging.loggerDict[name] # 0, ret |-> r.ret]
    /\ err' = NoError
    /\ UNCHANGED <<program, pc, runs, sent, logger, acqVars, dbVars>>

\* logger.debug / logger.info / logger.error on a logger get_logger returned.
RecordMessage(n) == <<"record", ToString(n)>>
CallLog ==
    /\ program = "logging_setup" /\ pc = "idle"
    /\ Len(sent) < MaxRecords
    /\ \E name \in LoggerNames, levelname \in {"DEBUG", "INFO", "ERROR"} :
          \E id \in returned[name] :
             /\ logging' = Log(logging, id, levelname, RecordMessage(Len(sent) + 1))
             /\ sent' = Append(sent, [name |-> name, levelname |-> levelname,
                                      message |-> RecordMessage(Len(sent) + 1)])
             /\ lastOp' = [op |-> "log", name |-> name, id |-> id]
    /\ err' = NoError
    /\ UNCHANGED <<program, pc, runs, dirs, returned, logger, acqVars, dbVars>>

----------------------------------------------------------------------------
(* The database server and the data files.                                 *)

NoTable   == [exists |-> FALSE, rows |-> <<>>]
Table(rs) == [exists |-> TRUE, rows |-> rs]
NoFile    == [exists |-> FALSE, rows |-> <<>>]
File(rs)  == [exists |-> TRUE, rows |-> rs]

\* The files data_dir may hold: name, rows, and whether read_csv parses it.
DirFiles ==
    {[name |-> <<"a", ".csv">>,     rows |-> <<"a1", "a2">>, parses |-> TRUE],
     [name |-> <<"b", ".csv">>,     rows |-> <<"b1">>,       parses |-> TRUE],
     [name |-> <<"bad", ".csv">>,   rows |-> <<>>,           parses |-> FALSE],
     [name |-> <<"notes", ".txt">>, rows |-> <<"n1">>,       parses |-> TRUE]}

\* Directory listings: the files of a subset of DirFiles, in any order.
Listings ==
    {l \in UNION {[1..n -> DirFiles] : n \in 0..MaxFiles} :
        \A i, j \in 1..Len(l) : i # j => l[i] # l[j]}

\* file.endswith(".csv"), ingest_db.py line 89.
EndsWithCsv(f) == f.name[Len(f.name)] = ".csv"

OperationalError(line) == Raise("OperationalError", "Can't connect to MySQL server", line)

\* create_database, ingest_db.py lines 50-58.  No try: an exception leaves
\* as it was raised.
CreateDatabase ==
    /\ \/ /\ ~driverOk
          /\ err' = Raise("ArgumentError", "Could not parse SQLAlchemy URL", 54)
          /\ UNCHANGED <<database, dbCalls>>
       \/ /\ driverOk /\ ~dbUp
          /\ err' = OperationalError(57)
          /\ dbCalls' = dbCalls + 1
          /\ UNCHANGED database
       \/ /\ driverOk /\ dbUp
          /\ err' = NoError
          /\ dbCalls' = dbCalls + 1
          /\ database' = TRUE
    /\ lastOp' = [op |-> "create_database"]
    /\ UNCHANGED <<configDoc, driverOk, dbUp, table, dataDir, tableWrites, snapshot>>

\* df.to_sql(name, con, if_exists="append") would add the rows to the table.
ToSqlAppend(t, rows) == Table(t.rows \o rows)

\* df.to_sql(name, con, if_exists="replace", index=False), ingest_db.py
\* lines 91-96: the table is dropped and created again from the frame.
ToSql(t, rows) == Table(rows)

\* The loop of ingest_db, lines 88-96, from file i of the listing on: the
\* table, the number of to_sql calls completed, the connections attempted
\* and the exception that ended the loop.
RECURSIVE IngestFrom(_, _, _)
IngestFrom(l, i, acc) ==
    IF i > Len(l) THEN acc
    ELSE IF ~EndsWithCsv(l[i]) THEN IngestFrom(l, i + 1, acc)
    ELSE IF ~l[i].parses
         THEN [acc EXCEPT !.err = Raise("ParserError", "Error tokenizing data", 90)]
    ELSE IF ~(dbUp /\ database)
         THEN [acc EXCEPT !.err = OperationalError(91), !.calls = @ + 1]
    ELSE IngestFrom(l, i + 1, [acc EXCEPT !.table = ToSql(@, l[i].rows),
                                          !.writes = @ + 1, !.calls = @ + 1])

\* ingest_db(config), lines 84-96.
IngestDb ==
    /\ LET r == IF ~driverOk
                THEN [table |-> table, writes |-> 0, calls |-> 0,
                      err |-> Raise("ArgumentError", "Could not parse SQLAlchemy URL", 65)]
                ELSE IF configDoc = "no_table_name"
                THEN [table |-> table, writes |-> 0, calls |-> 0,
                      err |-> Raise("BoxKeyError", "'ConfigBox' object has no attribute 'table_name'", 85)]
                ELSE IngestFrom(dataDir, 1, [table |-> table, writes |-> 0, calls |-> 0,
                                             err |-> NoError])
       IN /\ table' = r.table
          /\ tableWrites' = r.writes
          /\ dbCalls' = dbCalls + r.calls
          /\ err' = r.err
    /\ lastOp' = [op |-> "ingest_db", entry |-> table]
    /\ UNCHANGED <<configDoc, driverOk, dbUp, database, dataDir, snapshot>>

\* scripts/ingest_db.py as a script: the configuration document is read at
\* lines 41-44, then create_database() and ingest_db(config) run (102-104).
IngestLoadConfig ==
    /\ program = "ingest_db" /\ pc = "load_config"
    /\ err' = IF configDoc = "missing"
              THEN Raise("FileNotFoundError", "[Errno 2] No such file or directory", 43)
              ELSE NoError
    /\ pc' = AfterStage(err', "create_database")
    /\ lastOp' = [op |-> "load_config"]
    /\ UNCHANGED <<program, runs, acqVars, logVars, dbVars>>

MainCreateDatabase ==
    /\ program = "ingest_db" /\ pc = "create_database"
    /\ CreateDatabase
    /\ pc' = AfterStage(err', "ingest_db")
    /\ UNCHANGED <<program, runs, acqVars, logVars>>

MainIngestDb ==
    /\ program = "ingest_db" /\ pc = "ingest_db"
    /\ IngestDb
    /\ pc' = AfterStage(err', "exit_0")
    /\ UNCHANGED <<program, runs, acqVars, logVars>>

----------------------------------------------------------------------------
(* utils/data_io.py and config/configuration.py *)

RawDataPath == <<"artifacts", "data_ingestion">>

\* load_yaml, data_io.py lines 41-50: the exception it raises for a
\* document in state doc, NoError when it returns the ConfigBox.
LoadYaml(doc) ==
    CASE doc = "missing"     -> Raise("FileNotFoundError", "[Errno 2] No such file or directory", 42)
      [] doc = "malformed"   -> Raise("YAMLError", "while parsing a block mapping", 43)
      [] doc = "empty"       -> Raise("ValueError", "YAML file is empty", 45)
      [] doc = "unsupported" -> Raise("ValueError", "YAML file is invalid or contains unsupported values", 48)
      [] OTHER               -> NoError

\* A loop that left after its first path.
CreateDirectoriesFirstOnly(ds, list) ==
    IF list = <<>> THEN ds ELSE MkdirParents(ds, Head(list))

\* create_directories(list_dir_path), data_io.py lines 67-69.
RECURSIVE CreateDirectories(_, _)
CreateDirectories(ds, list) ==
    IF list = <<>> THEN ds
    ELSE CreateDirectories(MkdirParents(ds, Head(list)), Tail(list))

\* A constructor that created the directories before it loaded the document.
ConfigurationManagerDirsFirst(doc, ds) ==
    [err  |-> IF LoadYaml(doc) # NoError THEN LoadYaml(doc)
              ELSE IF doc = "no_raw_data_path"
              THEN Raise("BoxKeyError", "'ConfigBox' object has no attribute 'raw_data_path'", 16)
              ELSE NoError,
     dirs |-> CreateDirectories(ds, <<RawDataPath>>)]

\* ConfigurationManager.__init__, configuration.py lines 10-17: the
\* exception that leaves it and the directories that exist afterwards.
ConfigurationManager(doc, ds) ==
    IF LoadYaml(doc) # NoError THEN [err |-> LoadYaml(doc), dirs |-> ds]
    ELSE IF doc = "no_raw_data_path"
    THEN [err |-> Raise("BoxKeyError", "'ConfigBox' object has no attribute 'raw_data_path'", 16),
          dirs |-> ds]
    ELSE [err |-> NoError, dirs |-> CreateDirectories(ds, <<RawDataPath>>)]

\* A client of create_directories: the paths it may name, the lists it may
\* pass (a path may occur twice) and the directory trees it may start from.
DirPaths == {<<"artifacts">>, RawDataPath, <<"artifacts", "models">>, <<"logs">>}
DirLists == UNION {[1..n -> DirPaths] : n \in 0..MaxDirs}
DirTrees == {t \in SUBSET DirPaths : \A d \in t : Prefixes(d) \subseteq t}

CallCreateDirectories ==
    /\ program = "create_directories" /\ pc = "idle"
    /\ \E list \in DirLists :
          /\ dirs' = CreateDirectories(dirs, list)
          /\ lastOp' = [op |-> "create_directories", list |-> list, entry |-> dirs]
    /\ err' = NoError
    /\ UNCHANGED <<program, pc, runs, logging, returned, sent, logger, acqVars, dbVars>>

----------------------------------------------------------------------------
(* components/data_ingestion.py *)

\* logger.info(text) through the module's logger.
Info(L, id, text) == Log(L, id, "INFO", <<text>>)

\* A to_csv(file_path, mode="a") would add the rows to the file.
ToCsvAppend(f, rows) == File(f.rows \o rows)

\* df.to_csv(file_path, index=False), line 56, when it completes: the file
\* is opened with mode "w" and holds the rows of the frame.
ToCsv(f, rows) == File(rows)

\* A stage that opened the snapshot file for writing before it read the data.
SnapshotTruncated(f) == File(<<>>)

\* Lines 47-54 open no file: until to_csv runs the snapshot file, if there
\* is one, is what it was.
SnapshotBeforeToCsv(f) == f

\* load_data_from_db, lines 45-60, for each place it can fail.  wrote is the
\* snapshot file a failing to_csv leaves.
LoadDataFromDb ==
    LET L1 == Info(logging, logger, "Looking for DB engine...")
        L2 == Info(Info(L1, logger, "DB connection established"), logger, "Reading data from DB...")
        L3 == Info(Info(L2, logger, "Data loaded"), logger, "Saving snapshot of raw data...")
        L4 == Info(L3, logger, "Snapshot of raw data saved")
    IN
    /\ \/ /\ ~driverOk
          \* _get_db_engine raises CustomException (line 43), which the
          \* handler of line 59 catches and wraps again.
          /\ LET raw   == Raise("ArgumentError", "Could not parse SQLAlchemy URL", 38)
                 inner == CustomException(raw, 38, 43)
                 outer == CustomException(inner, 48, 60)
             IN /\ err' = outer
                /\ logging' = LogEnriched(LogEnriched(L1, raw, 38), inner, 48)
          /\ lastOp' = [op |-> "load_data_from_db", failed |-> "engine", entry |-> snapshot,
                        caught |-> CustomException(Raise("ArgumentError", "Could not parse SQLAlchemy URL", 38), 38, 43),
                        tbLine |-> 48]
          /\ snapshot' = SnapshotBeforeToCsv(snapshot)
          /\ UNCHANGED dbCalls
       \/ /\ driverOk /\ ~(dbUp /\ database /\ table.exists)
          /\ LET raw == IF dbUp /\ database
                        THEN Raise("ProgrammingError", "Table 'flight_prices' doesn't exist", 52)
                        ELSE OperationalError(52)
             IN /\ err' = CustomException(raw, 52, 60)
                /\ logging' = LogEnriched(L2, raw, 52)
                /\ lastOp' = [op |-> "load_data_from_db", failed |-> "query", entry |-> snapshot,
                              caught |-> raw, tbLine |-> 52]
          /\ dbCalls' = dbCalls + 1
          /\ snapshot' = SnapshotBeforeToCsv(snapshot)
       \/ /\ driverOk /\ dbUp /\ database /\ table.exists
          /\ \E wrote \in {snapshot} \cup {File(SubSeq(table.rows, 1, k)) : k \in 0..(Len(table.rows) - 1)} :
                /\ snapshot' = wrote
                /\ LET raw == Raise("OSError", "[Errno 28] No space left on device", 56)
                   IN /\ err' = CustomException(raw, 56, 60)
                      /\ logging' = LogEnriched(L3, raw, 56)
                      /\ lastOp' = [op |-> "load_data_from_db", failed |-> "write", entry |-> snapshot,
                                    caught |-> raw, tbLine |-> 56]
          /\ dbCalls' = dbCalls + 1
       \/ /\ driverOk /\ dbUp /\ database /\ table.exists
          /\ snapshot' = ToCsv(snapshot, table.rows)
          /\ err' = NoError
          /\ logging' = L4
          /\ lastOp' = [op |-> "load_data_from_db", failed |-> "none", entry |-> snapshot,
                        caught |-> NoError, tbLine |-> 0]
          /\ dbCalls' = dbCalls + 1
    /\ UNCHANGED <<configDoc, driverOk, dbUp, database, table, dataDir, tableWrites>>

\* The module as a script.  Importing it runs get_logger (lines 14-17, mode
\* "w" by default); lines 64-67 build the ConfigurationManager and the
\* DataIngestion object and call load_data_from_db.
ImportDataIngestion ==
    /\ program = "data_ingestion" /\ pc = "import"
    /\ LET r == GetLogger(logging, DATA_INGESTION_LOGGER, DataIngestionLogPath, "w") IN
       /\ dirs' = MkdirParents(dirs, Parent(DataIngestionLogPath))
       /\ logging' = r.L
       /\ logger' = r.ret
       /\ returned' = [returned EXCEPT ![DATA_INGESTION_LOGGER] = @ \cup {r.ret}]
       /\ lastOp' = [op |-> "get_logger", name |-> DATA_INGESTION_LOGGER,
                     path |-> DataIngestionLogPath, mode |-> "w",
                     cached |-> logging.loggerDict[DATA_INGESTION_LOGGER] # 0, ret |-> r.ret]
    /\ err' = NoError
    /\ pc' = "ConfigurationManager"
    /\ UNCHANGED <<program, runs, sent, acqVars, dbVars>>

MainConfigurationManager ==
    /\ program = "data_ingestion" /\ pc = "ConfigurationManager"
    /\ LET r == ConfigurationManager(configDoc, dirs) IN
       /\ err' = r.err
       /\ dirs' = r.dirs
       /\ pc' = AfterStage(r.err, "load_data_from_db")
    /\ lastOp' = [op |-> "ConfigurationManager"]
    /\ UNCHANGED <<program, runs, logging, returned, sent, logger, acqVars, dbVars>>

MainLoadDataFromDb ==
    /\ program = "data_ingestion" /\ pc = "load_data_from_db"
    /\ LoadDataFromDb
    /\ pc' = AfterStage(err', "exit_0")
    /\ UNCHANGED <<program, runs, dirs, returned, sent, logger, acqVars>>

----------------------------------------------------------------------------
(* Initial states: the process is about to start; the files, directories   *)
(* and server are as any earlier run may have left them.                   *)

AcquisitionUntouched ==
    /\ archive = "absent" /\ archiveDir = FALSE /\ extractDir = FALSE
    /\ extracted = {} /\ fetches = 0 /\ unpacks = 0

LoggingUntouched ==
    /\ logging = FreshLogging /\ dirs = {} /\ returned = [n \in LoggerNames |-> {}]
    /\ sent = <<>> /\ logger = 0

DatabaseUntouched ==
    /\ configDoc = "ok" /\ driverOk = TRUE /\ dbUp = TRUE /\ database = TRUE
    /\ table = NoTable /\ dataDir = <<>> /\ tableWrites = 0 /\ dbCalls = 0
    /\ snapshot = NoFile

ProcessStart == runs = 1 /\ lastOp = NoOp /\ err = NoError

InitAcquisition ==
    /\ \/ program = "data_acquisition" /\ pc = "download_zip"
       \/ program = "DataAcquisition" /\ pc = "idle"
    /\ ProcessStart
    /\ archive \in ArchiveStates
    /\ archiveDir \in BOOLEAN
    /\ Exists(archive) => archiveDir
    /\ extractDir \in BOOLEAN
    /\ extracted \in SUBSET OldEntries
    /\ extracted # {} => extractDir
    /\ fetches = 0
    /\ unpacks = 0
    /\ LoggingUntouched /\ DatabaseUntouched

\* A log file an earlier process wrote.
OldLine == Line("timestamped", "Pipeline", "INFO", <<"record", "0">>)

InitLogging ==
    /\ program = "logging_setup" /\ pc = "idle"
    /\ ProcessStart
    /\ \E old \in SUBSET LogPaths :
          /\ logging = [FreshLogging EXCEPT
                          !.files = [p \in LogPaths |->
                                        IF p \in old
                                        THEN [exists |-> TRUE, content |-> <<OldLine>>]
                                        ELSE [exists |-> FALSE, content |-> <<>>]]]
          /\ dirs = UNION {Prefixes(Parent(p)) : p \in old}
    /\ returned = [n \in LoggerNames |-> {}]
    /\ sent = <<>> /\ logger = 0
    /\ AcquisitionUntouched /\ DatabaseUntouched

InitIngest ==
    /\ program = "ingest_db" /\ pc = "load_config"
    /\ ProcessStart
    /\ configDoc \in {"ok", "no_table_name", "missing"}
    /\ driverOk \in BOOLEAN
    /\ dbUp \in BOOLEAN
    /\ database \in BOOLEAN
    /\ table \in {NoTable, Table(<<"old1">>)}
    /\ table.exists => database
    /\ dataDir \in Listings
    /\ tableWrites = 0 /\ dbCalls = 0
    /\ snapshot = NoFile
    /\ AcquisitionUntouched /\ LoggingUntouched

InitDataIngestion ==
    /\ program = "data_ingestion" /\ pc = "import"
    /\ ProcessStart
    /\ configDoc \in {"ok", "missing", "malformed", "empty", "unsupported", "no_raw_data_path"}
    /\ driverOk \in BOOLEAN
    /\ dbUp \in BOOLEAN
    /\ database \in BOOLEAN
    /\ table \in {NoTable, Table(<<"a1", "a2">>)}
    /\ table.exists => database
    /\ dataDir = <<>>
    /\ tableWrites = 0 /\ dbCalls = 0
    /\ snapshot \in {NoFile, File(<<"old1">>)}
    /\ logging \in {FreshLogging,
                    [FreshLogging EXCEPT !.files[DataIngestionLogPath] =
                                            [exists |-> TRUE, content |-> <<OldLine>>]]}
    /\ dirs = IF logging.files[DataIngestionLogPath].exists
              THEN Prefixes(Parent(DataIngestionLogPath)) ELSE {}
    /\ returned = [n \in LoggerNames |-> {}]
    /\ sent = <<>> /\ logger = 0
    /\ AcquisitionUntouched

InitCreateDirectories ==
    /\ program = "create_directories" /\ pc = "idle"
    /\ ProcessStart
    /\ dirs \in DirTrees
    /\ logging = FreshLogging /\ returned = [n \in LoggerNames |-> {}]
    /\ sent = <<>> /\ logger = 0
    /\ AcquisitionUntouched /\ DatabaseUntouched

Init ==
    \/ InitAcquisition
    \/ InitLogging
    \/ InitIngest
    \/ InitDataIngestion
    \/ InitCreateDirectories

Next ==
    \/ MainDownloadZip
    \/ MainExtractAll
    \/ RerunAcquisition
    \/ CallDownloadZip
    \/ CallExtractAll
    \/ CallGetLogger
    \/ CallLog
    \/ IngestLoadConfig
    \/ MainCreateDatabase
    \/ MainIngestDb
    \/ ImportDataIngestion
    \/ MainConfigurationManager
    \/ MainLoadDataFromDb
    \/ CallCreateDirectories

Spec == Init /\ [][Next]_vars

----------------------------------------------------------------------------
(* Properties of scripts/data_acquisition.py                               *)

\* C1: a download_zip that finds the archive present with size > 0 makes no
\* fetch, returns without an exception and leaves the archive as it was;
\* any other download_zip makes exactly one fetch.
C1_FetchOnlyWhenMissingOrEmpty ==
    lastOp.op = "download_zip" =>
        IF lastOp.entry \in {"valid", "corrupt"}
        THEN fetches = 0 /\ err = NoError /\ archive = lastOp.entry
        ELSE fetches = 1

\* The script was run a second time on the archive the first run left, and
\* download_zip took the fast path.
C1_Witness ==
    /\ program = "data_acquisition" /\ runs = 2
    /\ lastOp.op = "download_zip" /\ lastOp.entry = "valid" /\ lastOp.outcome = "skipped"

\* C2: when the fetch of download_zip returned and the archive path still
\* does not exist, download_zip fails with the RuntimeError of its
\* post-condition check.
C2_MissingAfterFetchIsRuntimeError ==
    (/\ lastOp.op = "download_zip" /\ fetches = 1 /\ lastOp.outcome # "raises"
     /\ ~Exists(archive))
        => err = DownloadFailed

\* C3: when the fetch of download_zip left a zero-byte file, download_zip
\* raises RuntimeError.
C3_EmptyAfterFetchIsRuntimeError ==
    (/\ lastOp.op = "download_zip" /\ fetches = 1 /\ lastOp.outcome # "raises"
     /\ Exists(archive) /\ Size(archive) = 0)
        => err.kind = "RuntimeError"

\* C4 as claimed: extract_all of a missing archive fails with
\* FileNotFoundError and leaves extract_dir and everything below it as they
\* were.
C4_MissingArchiveWritesNothing ==
    (lastOp.op = "extract_all" /\ lastOp.entry = "absent")
        => /\ err.kind = "FileNotFoundError"
           /\ extractDir = lastOp.hadDir
           /\ extracted = lastOp.hadFiles

\* C4 as amended: extract_all of a missing archive fails with the
\* FileNotFoundError that stat() raises while the validation condition of
\* line 128 is evaluated, opens no archive and writes nothing below
\* extract_dir; extract_dir itself exists afterwards (line 126 created it
\* if it was absent).
C4_MissingArchiveExtractsNothing ==
    (lastOp.op = "extract_all" /\ lastOp.entry = "absent")
        => /\ err.kind = "FileNotFoundError" /\ err.line = 128
           /\ unpacks = 0
           /\ extracted = lastOp.hadFiles
           /\ extractDir

\* extract_all ran on a missing archive with no extract_dir.
C4_Witness ==
    /\ lastOp.op = "extract_all" /\ lastOp.entry = "absent"
    /\ ~lastOp.hadDir /\ err # NoError

\* C5: extract_all of an archive that is missing or has size zero raises
\* FileNotFoundError("Zip file is missing or empty. Cannot extract.")
\* before any extraction is attempted.
C5_MissingOrEmptyIsZipMissing ==
    (lastOp.op = "extract_all" /\ lastOp.entry \in {"absent", "empty"})
        => err = ZipMissing /\ unpacks = 0

----------------------------------------------------------------------------
(* Properties of core/logging_setup.py                                     *)

\* The paths the file handlers of logger object id write to.
FileTargets(id) ==
    {logging.heap[id].handlers[i].target :
        i \in {j \in 1..Len(logging.heap[id].handlers) : logging.heap[id].handlers[j].kind = "file"}}
\* Lines of a file or of the console that carry a logger's message.
Copies(content, name, message) ==
    Cardinality({i \in 1..Len(content) : content[i].name = name /\ content[i].message = message})
\* Another logger object has a file handler on path p.
SharedFile(id, p) ==
    \E other \in 1..Len(logging.heap) : other # id /\ p \in FileTargets(other)

SameInstanceTwoSinks ==
    \A n \in LoggerNames :
        /\ Cardinality(returned[n]) <= 1
        /\ \A id \in returned[n] :
              LET hs == logging.heap[id].handlers IN
              Len(hs) = 2 /\ hs[1].kind = "file" /\ hs[2].kind = "stream"

\* C6 as claimed: every request for a name returns the same logger, which
\* owns one file sink and one console sink, and every record logged through
\* it at INFO or above is in its log file exactly once.
C6_EachRecordOnceInFile ==
    /\ SameInstanceTwoSinks
    /\ \A i \in 1..Len(sent) :
          LevelNo(sent[i].levelname) >= LevelNo("INFO") =>
             \A id \in returned[sent[i].name] : \A p \in FileTargets(id) :
                Copies(logging.files[p].content, sent[i].name, sent[i].message) = 1

\* C6 as amended: the same, for the records of a logger whose log file no
\* logger of another name was given: a second logger on the same path
\* truncates the file when it is opened with mode "w", and the two write
\* over each other's lines.
C6_EachRecordOnceInOwnFile ==
    /\ SameInstanceTwoSinks
    /\ \A i \in 1..Len(sent) :
          LevelNo(sent[i].levelname) >= LevelNo("INFO") =>
             \A id \in returned[sent[i].name] : \A p \in FileTargets(id) :
                ~SharedFile(id, p) =>
                   Copies(logging.files[p].content, sent[i].name, sent[i].message) = 1

\* A name was requested again after a record was logged through its logger,
\* and the record is in the log file once.
C6_Witness ==
    /\ lastOp.op = "get_logger" /\ lastOp.cached
    /\ \E i \in 1..Len(sent) :
          /\ sent[i].name = lastOp.name /\ sent[i].levelname = "INFO"
          /\ \A p \in FileTargets(lastOp.ret) :
                Copies(logging.files[p].content, sent[i].name, sent[i].message) = 1

\* C7: a get_logger call for a name that already has a logger returns that
\* logger and changes nothing in the logging state: its handlers (and the
\* file its file handler targets), the content of every log file and the
\* number of times each file was opened stay as they were, whatever path
\* and mode the call gives.
C7_CachedLoggerUnchanged ==
    [][(lastOp'.op = "get_logger" /\ lastOp'.cached /\ logging.loggerDict[lastOp'.name] # 0)
          => /\ lastOp'.ret = logging.loggerDict[lastOp'.name]
             /\ logging'.heap = logging.heap
             /\ logging'.files = logging.files
             /\ logging'.opens = logging.opens]_vars

\* A cached logger was requested with mode "w" and another path than its
\* file handler's, whose file holds a record.
C7_Witness ==
    /\ lastOp.op = "get_logger" /\ lastOp.cached /\ lastOp.mode = "w"
    /\ \A p \in FileTargets(lastOp.ret) :
          p # lastOp.path /\ logging.files[p].content # <<>> /\ logging.opens[p] = 1
    /\ FileTargets(lastOp.ret) # {}
    /\ logging.opens[lastOp.path] = 0

----------------------------------------------------------------------------
(* Properties of the error handling                                        *)

StageOps == {"download_zip", "extract_all", "create_database", "ingest_db", "load_data_from_db"}

\* C8 as claimed: an exception that leaves a stage operation is a
\* CustomException that carries its cause.
C8_EveryFailureEnriched ==
    (lastOp.op \in StageOps /\ err # NoError)
        => err.kind = "CustomException" /\ err.args # <<>>

\* C8 as amended: an exception that leaves load_data_from_db is a
\* CustomException carrying the origin and the cause; an exception that
\* leaves download_zip, extract_all, create_database or ingest_db is the
\* underlying exception as it was raised.
C8_OnlySnapshotFailuresEnriched ==
    (lastOp.op \in StageOps /\ err # NoError) =>
        IF lastOp.op = "load_data_from_db"
        THEN /\ err.kind = "CustomException"
             /\ Len(err.args) = 1
             /\ err.error_message[2] = PythonFile
        ELSE err.kind # "CustomException" /\ err.args = <<>>

\* load_data_from_db failed in the query.
C8_Witness ==
    /\ lastOp.op = "load_data_from_db" /\ lastOp.failed = "query"
    /\ err.kind = "CustomException"

HasMessage(content, message) == \E i \in 1..Len(content) : content[i].message = message

\* C9 as claimed: the enriched message of a CustomException that reached
\* the caller is in the console and in the log file of the stage's logger.
C9_EnrichedInFileAndConsole ==
    err.kind = "CustomException" =>
        /\ HasMessage(logging.console, err.error_message)
        /\ HasMessage(logging.files[DataIngestionLogPath].content, err.error_message)

\* C9 as amended: the enriched message of a CustomException that reached
\* the caller was written to stderr by the root logger (as ERROR:root:...),
\* and to no log file.
C9_EnrichedOnRootConsoleOnly ==
    err.kind = "CustomException" =>
        /\ \E i \in 1..Len(logging.console) :
              logging.console[i] = Line("basic", "root", "ERROR", err.error_message)
        /\ \A p \in LogPaths : ~HasMessage(logging.files[p].content, err.error_message)

\* load_data_from_db failed writing the snapshot, with the stage's log file
\* open and written.
C9_Witness ==
    /\ lastOp.op = "load_data_from_db" /\ lastOp.failed = "write"
    /\ err.kind = "CustomException"
    /\ Len(logging.files[DataIngestionLogPath].content) = 5

\* C10: str() of a CustomException that reached the caller is the message
\* "Error occurred in python script - <file>, line number - <line>, error
\* message - <str(cause)>" of the exception its handler caught, never the
\* cause's text alone, and the exception caught is its argument, unaltered.
C10_StrIsEnrichedMessage ==
    err.kind = "CustomException" =>
        /\ Str(err) = <<"Error occurred in python script - ", "data_ingestion.py",
                        ", line number - ", ToString(lastOp.tbLine), ", error message - ">>
                      \o (IF lastOp.caught.kind = "CustomException"
                          THEN lastOp.caught.error_message ELSE lastOp.caught.msg)
        /\ Str(err) # lastOp.caught.msg
        /\ err.args = <<lastOp.caught>>

\* _get_db_engine failed: the CustomException that reached the caller wraps
\* the CustomException of _get_db_engine.
C10_Witness ==
    /\ lastOp.op = "load_data_from_db" /\ lastOp.failed = "engine"
    /\ err.kind = "CustomException" /\ err.args[1].kind = "CustomException"
    /\ err.args[1].args[1].kind = "ArgumentError"

----------------------------------------------------------------------------
(* Properties of scripts/ingest_db.py                                      *)

\* The files of a listing that the loop of ingest_db reads, in order.
CsvFiles(l) == SelectSeq(l, EndsWithCsv)

\* C11: ingest_db makes one table write per .csv file of the listing it got
\* through, none for any other file; after k >= 1 writes the table holds the
\* rows of the k-th .csv file only, whatever it held before, and after no
\* write it is as it was when ingest_db started.  An ingest_db that returns
\* normally has written once for every .csv file of the listing.
C11_LastFileWins ==
    lastOp.op = "ingest_db" =>
        LET csv == CsvFiles(dataDir) IN
        /\ tableWrites <= Len(csv)
        /\ (err = NoError => tableWrites = Len(csv))
        /\ table = IF tableWrites = 0 THEN lastOp.entry
                   ELSE Table(csv[tableWrites].rows)

\* ingest_db returned after replacing a non-empty table twice, the listing
\* holding a file that is not a .csv file as well.
C11_Witness ==
    /\ lastOp.op = "ingest_db" /\ err = NoError
    /\ tableWrites = 2 /\ Len(dataDir) = 3
    /\ lastOp.entry.exists
    /\ table # lastOp.entry

\* C12 as claimed: a run of scripts/ingest_db.py whose configuration
\* document lacks database.table_name ends while the document is loaded,
\* with an exception, before any directory is created and before any call
\* to the database server is made or a database is created.
C12_MissingTableNameFailsAtLoad ==
    (program = "ingest_db" /\ configDoc = "no_table_name" /\ lastOp.op # "none") =>
        /\ lastOp.op = "load_config"
        /\ err # NoError
        /\ pc = "exit_1"
        /\ dbCalls = 0
        /\ dirs = {}

----------------------------------------------------------------------------
(* Order of the stages of the two scripts                                  *)

\* The entry points and, for each, its first and its second stage.
EntryPoints == {"data_acquisition", "ingest_db"}
FirstStage  == [data_acquisition |-> "download_zip", ingest_db |-> "create_database"]
SecondStage == [data_acquisition |-> "extract_all",  ingest_db |-> "ingest_db"]

\* A step of an entry point keeps the order of its stages.
StagesInOrderStep ==
    program \in EntryPoints =>
        LET first  == FirstStage[program]
            second == SecondStage[program]
        IN /\ (lastOp' # lastOp /\ lastOp'.op = second) =>
                  /\ pc = second /\ lastOp.op = first /\ err = NoError
                  /\ runs' = runs
           /\ (pc' # pc /\ pc' = second) =>
                  pc = first /\ lastOp'.op = first /\ err' = NoError
           /\ (pc = first /\ pc' # pc /\ err' # NoError) =>
                  pc' = "exit_1" /\ lastOp'.op = first
           /\ pc \in {"exit_0", "exit_1"} =>
                  /\ lastOp' = lastOp /\ err' = err
                  /\ <<acqVars, logVars, dbVars>>' = <<acqVars, logVars, dbVars>>
                  /\ pc' = "download_zip" /\ runs' = runs + 1

\* C13: in scripts/data_acquisition.py and scripts/ingest_db.py, every step
\* (a) that runs the second stage is taken with the first stage as the
\* operation before it, which returned without an exception, in the same
\* process; (b) that makes the second stage the next one to run is the
\* first stage returning without an exception; (c) in which the first stage
\* raises ends the process with exit status 1; and (d) a process that has
\* ended runs no stage: what follows is at most another process started
\* from the beginning.
C13_StagesInOrder == [][StagesInOrderStep]_vars

\* create_database raised in scripts/ingest_db.py: the process has ended
\* with status 1 and no table was written.
C13_Witness ==
    /\ program = "ingest_db" /\ pc = "exit_1"
    /\ lastOp.op = "create_database" /\ err # NoError
    /\ tableWrites = 0

----------------------------------------------------------------------------
(* Properties of config/configuration.py and utils/data_io.py              *)

\* A step that constructs the ConfigurationManager creates raw_data_path
\* and its parents, and nothing else, when the document loads and has the
\* key; it creates no directory when the construction raises.
ConfigurationManagerStep ==
    (lastOp' # lastOp /\ lastOp'.op = "ConfigurationManager") =>
        IF err' = NoError
        THEN /\ LoadYaml(configDoc) = NoError
             /\ dirs' = dirs \cup Prefixes(RawDataPath)
        ELSE dirs' = dirs

\* C14: whenever the construction of ConfigurationManager has completed,
\* raw_data_path and its parents exist, and they exist when
\* load_data_from_db is about to run and after it has run; the construction
\* creates directories only when the document was loaded, so a construction
\* that raises (missing, malformed, empty or unsupported document, or a
\* document without the key) creates no directory.
C14_RawDataPathExistsAfterConstruction ==
    /\ []((lastOp.op = "ConfigurationManager" /\ err = NoError) =>
              Prefixes(RawDataPath) \subseteq dirs)
    /\ []((pc = "load_data_from_db" \/ lastOp.op = "load_data_from_db") =>
              Prefixes(RawDataPath) \subseteq dirs)
    /\ [][ConfigurationManagerStep]_vars

\* The construction completed and created the directory, which did not
\* exist before the process started; load_data_from_db is next.
C14_Witness ==
    /\ lastOp.op = "ConfigurationManager" /\ err = NoError
    /\ pc = "load_data_from_db"
    /\ RawDataPath \in dirs

\* A second create_directories with the list of the call before it changes
\* no directory.
SameListAgainStep ==
    (/\ lastOp.op = "create_directories" /\ lastOp'.op = "create_directories"
     /\ lastOp'.list = lastOp.list) => dirs' = dirs

\* C15: after create_directories(list) every path of the list exists with
\* all its parents, every directory that existed before still exists,
\* nothing else was created and no exception was raised; applying
\* create_directories to the same list again gives the same directories,
\* and so does a second call with the same list.
C15_CreateDirectoriesIdempotent ==
    /\ [](lastOp.op = "create_directories" =>
             /\ err = NoError
             /\ \A i \in 1..Len(lastOp.list) : Prefixes(lastOp.list[i]) \subseteq dirs
             /\ lastOp.entry \subseteq dirs
             /\ dirs = lastOp.entry
                         \cup UNION {Prefixes(lastOp.list[i]) : i \in 1..Len(lastOp.list)}
             /\ CreateDirectories(dirs, lastOp.list) = dirs)
    /\ [][SameListAgainStep]_vars

\* create_directories was called with two paths, the first of which existed
\* and the second of which did not, nor did its parent.
C15_Witness ==
    /\ lastOp.op = "create_directories"
    /\ lastOp.list = <<(<<"logs">>), RawDataPath>>
    /\ lastOp.entry = {<<"logs">>}
    /\ dirs = {<<"logs">>, <<"artifacts">>, RawDataPath}

----------------------------------------------------------------------------
(* Properties of components/data_ingestion.py                              *)

\* C16: when load_data_from_db has returned without an exception, the
\* snapshot file exists and holds exactly the rows of the table the query
\* read, in their order, whether or not a file was there before and
\* whatever it held.
C16_SnapshotIsResultSet ==
    (lastOp.op = "load_data_from_db" /\ err = NoError) =>
        /\ snapshot.exists
        /\ snapshot.rows = table.rows

\* load_data_from_db returned with a snapshot file of other content in place
\* at entry.
C16_Witness ==
    /\ lastOp.op = "load_data_from_db" /\ err = NoError
    /\ lastOp.entry = File(<<"old1">>)
    /\ snapshot = File(<<"a1", "a2">>)

----------------------------------------------------------------------------
(* Failures of extract_all                                                 *)

\* C17: when extract_all was given an archive that cannot be unpacked (a
\* zero-byte file or a damaged archive), it has opened the archive and left
\* with the zipfile.BadZipFile that ZipFile() or extractall() raised, as it
\* was raised and not wrapped; it has not returned normally, and the script
\* it ran in has ended with status 1 (pc is download_zip once the script was
\* started again).
C17_UnpackFailureReachesCaller ==
    (lastOp.op = "extract_all" /\ lastOp.entry \in {"empty", "corrupt"}) =>
        /\ unpacks = 1
        /\ err # NoError
        /\ err.kind = "BadZipFile" /\ err.args = <<>>
        /\ err.line \in {131, 132}
        /\ program = "data_acquisition" => pc \in {"exit_1", "download_zip"}

\* extractall failed on a damaged entry after it had written an entry
\* before it.
C17_Witness ==
    /\ lastOp.op = "extract_all" /\ lastOp.entry = "corrupt"
    /\ err.kind = "BadZipFile" /\ err.line = 132
    /\ extracted # lastOp.hadFiles

\* The records the construction of CustomException wrote: logging.error of
\* exception.py line 51, handled by the root logger.
EnrichedRecords ==
    {i \in 1..Len(logging.console) :
        logging.console[i].name = "root" /\ logging.console[i].levelname = "ERROR"}

\* C18 as claimed: whichever step of load_data_from_db failed (engine
\* creation, query, snapshot write), the caller has one CustomException
\* whose argument is the underlying error and not a CustomException, and
\* the failure wrote exactly one enriched record.
C18_EnrichedExactlyOnce ==
    (lastOp.op = "load_data_from_db" /\ err # NoError) =>
        /\ err.kind = "CustomException"
        /\ Len(err.args) = 1
        /\ err.args[1].kind # "CustomException"
        /\ Cardinality(EnrichedRecords) = 1

\* C19: when load_data_from_db has failed creating the engine or running the
\* query, the snapshot file is what it was when the call started (the same
\* rows, or still no file); a snapshot file that differs from the one at
\* entry means that the query had returned its result set and to_csv ran.
C19_SnapshotKeptOnQueryFailure ==
    lastOp.op = "load_data_from_db" =>
        /\ lastOp.failed \in {"engine", "query"} =>
              /\ err # NoError
              /\ snapshot = lastOp.entry
        /\ snapshot # lastOp.entry =>
              /\ lastOp.failed \in {"write", "none"}
              /\ driverOk /\ dbUp /\ database /\ table.exists

\* The query failed with a snapshot file of an earlier run in place.
C19_Witness ==
    /\ lastOp.op = "load_data_from_db" /\ lastOp.failed = "query"
    /\ err.kind = "CustomException"
    /\ lastOp.entry = File(<<"old1">>)
    /\ snapshot = File(<<"old1">>)

=============================================================================
